---- MODULE Spec2Model ----
(***************************************************************************)
(* A model of the word-sense-disambiguation programs of this repository:   *)
(* the prediction entry points and their heuristic override layer          *)
(* (cs5322f25prog3.py), the corpus parser, augmenter and lexicon features  *)
(* (wsd_utils.py), the training runner (train_wsd.py) and the command-line *)
(* runner (run_wsd_cli.py).                                                *)
(*                                                                         *)
(* Text is modelled as a sequence of atoms.  An atom is a whitespace       *)
(* character, a punctuation character, or a maximal cluster of word        *)
(* characters that the patterns of the program treat as a unit ("film",    *)
(* "director", "s").  Two adjacent word atoms form one word ("directors"   *)
(* is <<"director", "s">>).  A file is a sequence of lines.                *)
(***************************************************************************)
EXTENDS Integers, Sequences, FiniteSets, TLC

VARIABLES
    \* ---- prediction (cs5322f25prog3._predict) and its command-line caller
    pc,          \* position of the prediction call
    caller,      \* "api" (WSD_Test_* called directly) or "cli" (run_wsd_cli.main)
    word,        \* the target word of the call
    sentences,   \* the argument: Absent (None) or Some(list of raw sentences)
    models,      \* the set of words whose model artifact exists on disk
    fsLog,       \* the model-store accesses of the call so far, in order
    X,           \* the normalized sentences
    clfOut,      \* what model.predict(X) returned (kept for reference)
    feats,       \* the lexicon feature rows the pipeline computed for X
    preds,       \* the classifier's labels, then the adjusted labels
    adjusted,    \* the labels the override loop has appended so far
    hits,        \* <<s1_hit, s2_hit>> of each iteration of the override loop so far
    result,      \* Some(returned list), or Absent
    error,       \* the raised error, or None
    outFile,     \* the CLI's output path: Absent or Some(text)
    outFile0,    \* contents of the output path before the run
    \* ---- corpus parser (wsd_utils.parse_two_sense_file)
    contents,    \* the file handed to the parser: a sequence of lines
    ppc,         \* position of the parser
    idx,         \* the marker loop's index i (0-based, as in the code)
    sense1_idx,  \* NoIdx (None) or the index of the '1' marker
    sense2_idx,  \* NoIdx (None) or the index of the '2' marker
    pres,        \* Some(<<s1, s2>>) once returned, or Absent
    perr,        \* the raised error, or None
    \* ---- augmenter (wsd_utils.augment_sentences) and the random generator
    rng,         \* the process-wide generator: [seed, pos]
    apc,         \* position of the augmenter
    asents,      \* the argument sentences
    anum,        \* the argument num_augmentations
    augmented,   \* the list being built
    apass,       \* the outer loop's pass number
    ai,          \* the inner loop's index into sentences
    ares,        \* Some(returned list), or Absent
    seen,        \* the outputs the completed calls have returned
    ncalls,      \* how many calls were made
    rng0,        \* the generator's state when the current call was made
    \* ---- training runner (train_wsd.main)
    words,       \* args.words
    corpus,      \* per known word: its corpus file (or Absent) and its stage-1 sentences
    tpc,         \* position of the runner
    wi,          \* position in args.words of the word being trained (from 1)
    saved,       \* the set of words whose model was saved by this run
    skipped,     \* the words reported as unknown
    terr,        \* the error that ended the run, or None
    \* ---- normalizer (wsd_utils.normalize_sentences)
    nsents,      \* the list first handed to the normalizer
    nin,         \* the argument of the current call
    nout,        \* the list `out` being built
    nres,        \* the lists returned so far, in call order
    npc,         \* position of the normalizer
    \* ---- stage-1 loader (wsd_utils.load_stage1_sentences)
    s1file,      \* the stage-1 file: Absent, or Some(its lines)
    s1pc,        \* position of the loader
    s1i,         \* how many lines the loop has consumed
    in_s1,       \* the flag in_s1
    in_s2,       \* the flag in_s2
    st1,         \* the list s1 being built
    st2,         \* the list s2 being built
    s1res,       \* Some(<<s1, s2>>) once returned, or Absent
    \* ---- training-data loader (train_wsd.load_word_data)
    lcorpus,     \* the word's corpus file (or Absent) and its stage-1 sentences
    lpc,         \* position of the loader
    ls1,         \* the list s1
    ls2,         \* the list s2
    lX,          \* the returned X
    ly,          \* the returned y
    lerr         \* the raised error, or None

vars == << pc, caller, word, sentences, models, fsLog, X, clfOut, feats, preds, adjusted, hits,
           result, error, outFile, outFile0,
           contents, ppc, idx, sense1_idx, sense2_idx, pres, perr,
           rng, apc, asents, anum, augmented, apass, ai, ares, seen, ncalls, rng0,
           words, corpus, tpc, wi, saved, skipped, terr,
           nsents, nin, nout, nres, npc,
           s1file, s1pc, s1i, in_s1, in_s2, st1, st2, s1res,
           lcorpus, lpc, ls1, ls2, lX, ly, lerr >>

predictVars == << pc, caller, word, sentences, models, fsLog, X, clfOut, feats,
                  preds, adjusted, hits, result, error, outFile, outFile0 >>
parseVars   == << contents, ppc, idx, sense1_idx, sense2_idx, pres, perr >>
augmentVars == << rng, apc, asents, anum, augmented, apass, ai, ares, seen,
                 ncalls, rng0 >>
trainVars   == << words, corpus, tpc, wi, saved, skipped, terr >>
normVars    == << nsents, nin, nout, nres, npc >>
stage1Vars  == << s1file, s1pc, s1i, in_s1, in_s2, st1, st2, s1res >>
loadVars    == << lcorpus, lpc, ls1, ls2, lX, ly, lerr >>

\* Python's None, for the variables that hold a word or an error name
None == "None"

\* An optional list (an argument that may be None, a result not yet returned, a
\* file that may be absent) is Absent or Some(list)
Absent == <<>>
Some(x) == <<x>>
Val(v) == v[1]

-----------------------------------------------------------------------------
(***************************************************************************)
(* Text: atoms, and the string methods the program uses.                   *)
(***************************************************************************)

\* Characters matched by \s (and stripped by str.strip, split on by str.split)
WS == {" ", "\t"}

\* The punctuation characters that occur in the program's patterns
Punct == {".", ",", "'", ";", ":", "!", "?", "-", ")"}

\* \w: an atom that is neither whitespace nor punctuation is a run of word characters
IsWord(a) == a \notin WS /\ a \notin Punct

\* re.I: the lower-case form of an atom
Lower(a) ==
    CASE a = "The" -> "the"
      [] a = "Director" -> "director"
      [] a = "Rubbish" -> "rubbish"
      [] a = "Is" -> "is"
      [] a = "A" -> "a"
      [] OTHER -> a

\* s[i..j] (1-based, inclusive), empty when j < i
Slice(s, i, j) == IF j < i THEN <<>> ELSE SubSeq(s, i, j)

RECURSIVE LStrip(_)
LStrip(s) == IF s # <<>> /\ Head(s) \in WS THEN LStrip(Tail(s)) ELSE s

\* str.rstrip()
RECURSIVE RStrip(_)
RStrip(s) ==
    IF s # <<>> /\ s[Len(s)] \in WS THEN RStrip(Slice(s, 1, Len(s) - 1)) ELSE s

\* str.strip()
Strip(s) == LStrip(RStrip(s))

\* str.split(): the maximal runs of non-whitespace atoms, in order
RECURSIVE SplitFrom(_, _)
SplitFrom(s, cur) ==
    IF s = <<>> THEN (IF cur = <<>> THEN <<>> ELSE <<cur>>)
    ELSE IF Head(s) \in WS
         THEN (IF cur = <<>> THEN <<>> ELSE <<cur>>) \o SplitFrom(Tail(s), <<>>)
         ELSE SplitFrom(Tail(s), Append(cur, Head(s)))

Split(s) == SplitFrom(s, <<>>)

\* re.sub(r"\s+", " ", s): every maximal whitespace run becomes one space
RECURSIVE CollapseWs(_)
CollapseWs(s) ==
    IF s = <<>> THEN <<>>
    ELSE IF Head(s) \in WS
         THEN <<" ">> \o CollapseWs(LStrip(s))
         ELSE <<Head(s)>> \o CollapseWs(Tail(s))

\* a variant of NormalizeOne that strips without collapsing
StripOnly(s) == Strip(s)

\* line 55: re.sub(r"\s+", " ", s).strip()
NormalizeOne(s) == Strip(CollapseWs(s))

normalize_sentences(sents) == [i \in 1..Len(sents) |-> NormalizeOne(sents[i])]

-----------------------------------------------------------------------------
(***************************************************************************)
(* Regular expressions over atoms, with re.search semantics.               *)
(***************************************************************************)

Lit(w)    == [t |-> "lit", ws |-> {w}, xs |-> <<>>]
AnyOf(S)  == [t |-> "lit", ws |-> S, xs |-> <<>>]
Cat(xs)   == [t |-> "seq", ws |-> {}, xs |-> xs]
Alt(xs)   == [t |-> "alt", ws |-> {}, xs |-> xs]
Opt(x)    == [t |-> "opt", ws |-> {}, xs |-> <<x>>]
WsPlus    == [t |-> "ws+", ws |-> {}, xs |-> <<>>]
WsStar    == [t |-> "ws*", ws |-> {}, xs |-> <<>>]
WB        == [t |-> "wb", ws |-> {}, xs |-> <<>>]
WordPlus  == [t |-> "w+", ws |-> {}, xs |-> <<>>]

\* whether position i of s holds a word atom (positions outside s do not)
WordAt(s, i) == i >= 1 /\ i <= Len(s) /\ IsWord(s[i])

\* Ends(r, s, i): the positions j such that r matches s[i..j-1] (flags=re.I)
RECURSIVE Ends(_, _, _)
RECURSIVE CatEnds(_, _, _, _)
Ends(r, s, i) ==
    CASE r.t = "lit" ->
            IF i <= Len(s) /\ Lower(s[i]) \in r.ws THEN {i + 1} ELSE {}
      [] r.t = "ws+" ->
            {j \in (i + 1)..(Len(s) + 1) : \A k \in i..(j - 1) : s[k] \in WS}
      [] r.t = "ws*" ->
            {j \in i..(Len(s) + 1) : \A k \in i..(j - 1) : s[k] \in WS}
      [] r.t = "w+" ->
            {j \in (i + 1)..(Len(s) + 1) : \A k \in i..(j - 1) : IsWord(s[k])}
      [] r.t = "wb" ->
            IF WordAt(s, i - 1) # WordAt(s, i) THEN {i} ELSE {}
      [] r.t = "opt" -> {i} \cup Ends(r.xs[1], s, i)
      [] r.t = "alt" -> UNION {Ends(r.xs[k], s, i) : k \in 1..Len(r.xs)}
      [] r.t = "seq" -> CatEnds(r.xs, 1, s, {i})
CatEnds(xs, k, s, from) ==
    IF k > Len(xs) THEN from
    ELSE CatEnds(xs, k + 1, s, UNION {Ends(xs[k], s, i) : i \in from})

\* rx.search(s) is not None
Search(r, s) == \E i \in 1..(Len(s) + 1) : Ends(r, s, i) # {}

\* any(rx.search(s) for rx in compiled)
AnyHit(pats, s) == \E k \in 1..Len(pats) : Search(pats[k], s)

\* sum(1 for rx in patterns if rx.search(s))
HitCount(pats, s) == Cardinality({k \in 1..Len(pats) : Search(pats[k], s)})

-----------------------------------------------------------------------------
(***************************************************************************)
(* The cue patterns of the heuristic override layer (cs5322f25prog3.py).   *)
(* Each pattern is written atom by atom: \b is WB, \s+ is WsPlus, \s* is   *)
(* WsStar, x? is Opt(x), a literal space is Lit(" ").                      *)
(***************************************************************************)

Phrase2(a, b)  == Cat(<<Lit(a), WsPlus, Lit(b)>>)      \* a\s+b
Joined2(a, b)  == Cat(<<Lit(a), WsStar, Lit(b)>>)      \* a\s*b
Spaced2(a, b)  == Cat(<<Lit(a), Lit(" "), Lit(b)>>)    \* "a b"

\* sense1_cues of the "director" branch
director_sense1_cues == <<
    Cat(<<WB,
          Alt(<<AnyOf({"executive", "managing", "marketing", "hospital", "regional",
                       "operations", "finance", "technical", "program",
                       "communications", "research", "security"}),
                Joined2("customer", "service")>>),
          WsPlus, Lit("director"), WB>>),
    Cat(<<WB, Lit("director"), WsPlus, Lit("of"), WsPlus,
          Alt(<<Joined2("human", "resources"),
                AnyOf({"sales", "operations", "communications", "research",
                       "security", "finance", "marketing", "it", "hr"}),
                Joined2("customer", "service")>>),
          WB>>),
    Cat(<<WB,
          AnyOf({"board", "company", "organization", "department", "division",
                 "nonprofit", "museum", "school", "hospital"}),
          WsPlus, Lit("director"), WB>>),
    Cat(<<WB,
          Alt(<<Joined2("chief", "executive"), Lit("ceo"),
                Cat(<<Lit("board"), WsPlus, Lit("of"), WsPlus,
                      Lit("director"), Lit("s")>>)>>),
          WB>>)
>>

\* sense2_cues of the "director" branch
director_sense2_cues == <<
    Cat(<<WB,
          Alt(<<AnyOf({"film", "movie", "theater", "theatre", "cinema", "documentary"}),
                Joined2("short", "film"), Joined2("feature", "film")>>),
          WsPlus, Lit("director"), WB>>),
    Cat(<<WB,
          Alt(<<AnyOf({"actor", "actress", "scene", "shot", "take", "cut",
                       "cinematographer", "screenwriter", "screening", "premiere",
                       "festival"}),
                Cat(<<Lit("pre"), Opt(Lit("-")), Lit("production")>>),
                Phrase2("principal", "photography")>>),
          WB>>),
    Cat(<<WB, Lit("director"), Opt(Lit("'")), Lit("s"), WsPlus,
          Alt(<<AnyOf({"cut", "vision", "style", "work", "approach"}),
                Phrase2("previous", "work")>>),
          WB>>),
    Cat(<<WB,
          Alt(<<Cat(<<Lit("award"), Opt(Lit("-")), Lit("winning")>>),
                AnyOf({"independent", "aspiring", "documentary", "theater", "theatre"})>>),
          WsPlus, Lit("director"), WB>>),
    Cat(<<WB,
          Alt(<<Phrase2("film", "school"), Phrase2("film", "festival"),
                Phrase2("standing", "ovation"), Phrase2("visual", "storytelling"),
                Phrase2("narrative", "structures")>>),
          WB>>)
>>

\* sense1_cues of the "rubbish" branch
rubbish_sense1_cues == <<
    Cat(<<WB,
          Alt(<<AnyOf({"bin", "trash", "garbage", "landfill", "litter", "refuse",
                       "debris", "waste", "scrap"}),
                Cat(<<Lit("dump"), Opt(Lit("ed"))>>),
                Joined2("garbage", "truck"), Joined2("trash", "bag"),
                Joined2("rubbish", "heap")>>),
          WB>>),
    Cat(<<WB,
          Alt(<<Joined2("clean", "up"), AnyOf({"dispose", "collection"}),
                Joined2("garbage", "collector"),
                Cat(<<Lit("curbside"), WsStar, Lit("pick"), Lit("up")>>),
                Joined2("collection", "day")>>),
          WB>>),
    Cat(<<WB,
          Alt(<<AnyOf({"recycle", "recycling", "compost", "compactor"}),
                Phrase2("waste", "management"), Phrase2("skip", "bin"),
                Joined2("rubbish", "bin"), Joined2("trash", "can"),
                Joined2("landfill", "site")>>),
          WB>>),
    Cat(<<WB,
          Alt(<<AnyOf({"tip", "dumpster"}),
                Joined2("wheelie", "bin"), Joined2("refuse", "site"),
                Joined2("transfer", "station"), Joined2("municipal", "dump")>>),
          WB>>),
    Cat(<<WB,
          Alt(<<Cat(<<Lit("bag"), Opt(Lit("s")), WsStar, Lit("of"), WsStar, Lit("rubbish")>>),
                Cat(<<Lit("pile"), Opt(Lit("s")), WsStar, Lit("of"), WsStar, Lit("rubbish")>>)>>),
          WB>>)
>>

\* the words of the first sense-2 pattern for "rubbish" (bunkum? is bunku, m?)
NonsenseWords ==
    {"nonsense", "nonsensical", "codswallop", "tripe", "drivel", "baloney",
     "bollocks", "hogwash", "poppycock", "claptrap", "twaddle", "malarkey",
     "guff", "piffle", "balderdash", "flimflam", "tommyrot"}

\* sense2_cues of the "rubbish" branch
rubbish_sense2_cues == <<
    Cat(<<WB, Alt(<<AnyOf(NonsenseWords), Cat(<<Lit("bunku"), Opt(Lit("m"))>>)>>), WB>>),
    Cat(<<Alt(<<AnyOf({"absolute", "utter", "complete", "total", "sheer"}),
                Spaced2("load", "of"), Spaced2("pile", "of"), Spaced2("lot", "of"),
                Cat(<<Lit("load"), Lit(" "), Lit("of"), Lit(" "), Lit("old")>>)>>),
          WsPlus, Lit("rubbish")>>),
    Cat(<<WB, Lit("talk"), Opt(Lit("ing")), WsPlus, Lit("rubbish"), WB>>),
    Cat(<<WB, Lit("rubbish"), Lit("!"), WB>>),
    Cat(<<WB,
          Alt(<<Cat(<<Lit("that"), Opt(Lit("'")), Lit("s")>>), Spaced2("this", "is")>>),
          WsPlus, Lit("rubbish"), WB>>),
    Cat(<<WB, AnyOf({"rubbish", "silly", "ridiculous"}), WsPlus, Lit("idea"), WB>>),
    Cat(<<WB, Lit("this"), WsPlus, Lit("article"), WsPlus, Lit("is"), WsPlus,
          Lit("rubbish"), WB>>)
>>

\* a variant of OverrideS1 that compiles the sense-2 list of the word
OverrideS1Swapped(w) ==
    CASE w = "director" -> director_sense2_cues
      [] w = "rubbish" -> rubbish_sense2_cues
      [] OTHER -> <<>>

\* the cue lists the override layer compiles for a word (none for "overtime")
OverrideS1(w) ==
    CASE w = "director" -> director_sense1_cues
      [] w = "rubbish" -> rubbish_sense1_cues
      [] OTHER -> <<>>

OverrideS2(w) ==
    CASE w = "director" -> director_sense2_cues
      [] w = "rubbish" -> rubbish_sense2_cues
      [] OTHER -> <<>>

-----------------------------------------------------------------------------
(***************************************************************************)
(* LexiconFeatures (wsd_utils.py): the pattern lists fit configures, and   *)
(* the two feature columns transform computes.                             *)
(***************************************************************************)

\* s1 of the "rubbish" branch of LexiconFeatures.fit
lexicon_rubbish_s1 == <<
    Cat(<<WB,
          Alt(<<AnyOf({"bin", "trash", "garbage", "landfill", "litter", "refuse",
                       "debris", "waste", "scrap"}),
                Cat(<<Lit("dump"), Opt(Lit("ed"))>>),
                Joined2("garbage", "truck"), Joined2("trash", "bag"),
                Joined2("rubbish", "heap")>>),
          WB>>),
    Cat(<<WB,
          Alt(<<Joined2("clean", "up"), AnyOf({"dispose", "collection"}),
                Joined2("garbage", "collector"),
                Cat(<<Lit("curbside"), WsStar, Lit("pick"), Lit("up")>>),
                Joined2("collection", "day"),
                Cat(<<Lit("pick"), Opt(Lit("-")), Lit("up"), WsStar, Lit("day")>>)>>),
          WB>>),
    Cat(<<WB,
          Alt(<<AnyOf({"recycle", "recycling", "compost", "compactor"}),
                Phrase2("waste", "management"), Phrase2("skip", "bin"),
                Joined2("rubbish", "bin"), Joined2("trash", "can"),
                Joined2("landfill", "site")>>),
          WB>>),
    Cat(<<WB,
          Alt(<<AnyOf({"tip", "dumpster"}),
                Joined2("wheelie", "bin"), Joined2("refuse", "site"),
                Joined2("transfer", "station"), Joined2("municipal", "dump")>>),
          WB>>),
    Cat(<<WB,
          Alt(<<Cat(<<Lit("bag"), Opt(Lit("s")), WsStar, Lit("of"), WsStar, Lit("rubbish")>>),
                Cat(<<Lit("pile"), Opt(Lit("s")), WsStar, Lit("of"), WsStar, Lit("rubbish")>>)>>),
          WB>>)
>>

\* s2 of the "rubbish" branch of LexiconFeatures.fit
lexicon_rubbish_s2 == <<
    Cat(<<WB, Alt(<<AnyOf(NonsenseWords), Cat(<<Lit("bunku"), Opt(Lit("m"))>>)>>), WB>>),
    Cat(<<Alt(<<AnyOf({"absolute", "utter", "complete", "total", "sheer"}),
                Spaced2("load", "of"), Spaced2("pile", "of"), Spaced2("lot", "of"),
                Cat(<<Lit("load"), Lit(" "), Lit("of"), Lit(" "), Lit("old")>>)>>),
          WsPlus, Lit("rubbish")>>),
    Cat(<<WB, Lit("talk"), Opt(Lit("ing")), WsPlus, Lit("rubbish"), WB>>),
    Cat(<<WB,
          Alt(<<Cat(<<Lit("that"), Opt(Lit("'")), Lit("s")>>), Spaced2("this", "is")>>),
          WsPlus, Lit("rubbish"), WB>>),
    Cat(<<WB, Lit("rubbish"), Lit("!"), WB>>),
    Cat(<<WB, AnyOf({"rubbish", "silly", "ridiculous"}), WsPlus, Lit("idea"), WB>>),
    Cat(<<WB, Lit("this"), WsPlus, Lit("article"), WsPlus, Lit("is"), WsPlus,
          Lit("rubbish"), WB>>)
>>

\* s1 of the "director" branch of LexiconFeatures.fit
lexicon_director_s1 == <<
    Cat(<<WB,
          Alt(<<AnyOf({"executive", "managing", "marketing", "hospital", "regional",
                       "operations", "finance", "technical", "program",
                       "communications", "research", "security"}),
                Joined2("customer", "service")>>),
          WsPlus, Lit("director"), WB>>),
    Cat(<<WB, Lit("director"), WsPlus, Lit("of"), WsPlus,
          Alt(<<Joined2("human", "resources"),
                AnyOf({"sales", "operations", "communications", "research",
                       "security", "finance", "marketing", "it", "hr"}),
                Joined2("customer", "service")>>),
          WB>>),
    Cat(<<WB,
          AnyOf({"board", "company", "organization", "department", "division",
                 "nonprofit", "museum", "school", "hospital"}),
          WsPlus, Lit("director"), WB>>),
    Cat(<<WB, Lit("director"), WsPlus,
          AnyOf({"approved", "announced", "implemented", "presented", "oversees",
                 "coordinates", "manages", "selected", "curated", "met",
                 "streamlined", "improved"}),
          WB>>),
    Cat(<<WB,
          Alt(<<Joined2("chief", "executive"), Lit("ceo"),
                Cat(<<Lit("board"), WsPlus, Lit("of"), WsPlus,
                      Lit("director"), Lit("s")>>)>>),
          WB>>)
>>

\* s2 of the "director" branch of LexiconFeatures.fit
lexicon_director_s2 == <<
    Cat(<<WB,
          Alt(<<AnyOf({"film", "movie", "theater", "theatre", "cinema", "documentary"}),
                Joined2("short", "film"), Joined2("feature", "film")>>),
          WsPlus, Lit("director"), WB>>),
    Cat(<<WB, Lit("director"), WsPlus,
          AnyOf({"shouted", "called", "chose", "collaborated", "received", "wrapped",
                 "spent", "worked", "answered", "transformed", "blocked", "aspires"}),
          WB>>),
    Cat(<<WB,
          Alt(<<AnyOf({"actor", "actress", "scene", "shot", "take", "cut",
                       "cinematographer", "screenwriter", "screening", "premiere",
                       "festival"}),
                Cat(<<Lit("pre"), Opt(Lit("-")), Lit("production")>>),
                Phrase2("principal", "photography")>>),
          WB>>),
    Cat(<<WB, Lit("director"), Opt(Lit("'")), Lit("s"), WsPlus,
          Alt(<<AnyOf({"cut", "vision", "style", "work", "approach"}),
                Phrase2("previous", "work")>>),
          WB>>),
    Cat(<<WB,
          Alt(<<Cat(<<Lit("award"), Opt(Lit("-")), Lit("winning")>>),
                AnyOf({"independent", "aspiring", "documentary", "theater", "theatre"})>>),
          WsPlus, Lit("director"), WB>>),
    Cat(<<WB, Lit("director"), Opt(Lit("s")), WsPlus,
          AnyOf({"study", "learn", "earn", "secure", "plan", "shoot", "film", "direct"}),
          WB>>),
    Cat(<<WB,
          Alt(<<Phrase2("film", "school"), Phrase2("film", "festival"),
                Phrase2("standing", "ovation"), Phrase2("visual", "storytelling"),
                Phrase2("narrative", "structures")>>),
          WB>>)
>>

\* LexiconFeatures.fit: self._s1_patterns / self._s2_patterns for self.word
LexiconS1(w) ==
    CASE w = "rubbish" -> lexicon_rubbish_s1
      [] w = "director" -> lexicon_director_s1
      [] OTHER -> <<>>

LexiconS2(w) ==
    CASE w = "rubbish" -> lexicon_rubbish_s2
      [] w = "director" -> lexicon_director_s2
      [] OTHER -> <<>>

\* LexiconFeatures.transform: the row <<feats[i,0], feats[i,1]>> of sentence s
LexiconRow(w, s) ==
    IF LexiconS1(w) = <<>> /\ LexiconS2(w) = <<>> THEN <<0, 0>>
    ELSE <<HitCount(LexiconS1(w), s), HitCount(LexiconS2(w), s)>>

-----------------------------------------------------------------------------
(***************************************************************************)
(* Bounds and inputs of the prediction model.                              *)
(***************************************************************************)

\* the longest sentence list handed to an entry point
MaxSents == 2

\* the three target words (DATA_FILES, the --word choices)
Words == {"director", "overtime", "rubbish"}

\* SenseLabel
Labels == {1, 2}

\* raw input sentences: each combines cues of the two cue-bearing words, with
\* whitespace runs and capitals that normalization and re.I must handle
SentencePool == {
    \* director: sense 2 only; rubbish: sense 1 only
    <<"film", " ", "director", " ", "bin">>,
    \* director: sense 1 only; rubbish: sense 2 only
    <<" ", "executive", "\t", " ", "Director", " ", "nonsense", " ">>,
    \* director: both senses; rubbish: both senses
    <<"ceo", " ", "cut", " ", "Rubbish", " ", "idea", " ", "bin">>,
    \* no override cue of either word; lexicon sense-1 patterns of both words
    <<"director", " ", "met", " ", "pick", "-", "up", " ", "day">>,
    \* the empty line
    <<>>
}

SentenceLists == UNION {[1..n -> SentencePool] : n \in 0..MaxSents}

-----------------------------------------------------------------------------
(***************************************************************************)
(* _predict and the three entry points (cs5322f25prog3.py).                *)
(***************************************************************************)

\* a variant of AfterEntry without the None check before the load
AfterEntryNoCheck(ss) == "load"

\* _predict, lines 29-31: where the call goes once entered
AfterEntry(ss) == IF ss = Absent THEN "raise_input" ELSE "load"

\* a variant of Decide in which a sense-2 hit wins even when sense 1 also hits
DecideSense2First(s1_hit, s2_hit, p) ==
    IF s2_hit THEN 2
    ELSE IF s1_hit THEN 1
    ELSE p

\* the override decision of one loop iteration (lines 57-62 and 87-92)
Decide(s1_hit, s2_hit, p) ==
    IF s2_hit /\ ~s1_hit THEN 2
    ELSE IF s1_hit /\ ~s2_hit THEN 1
    ELSE p

\* a variant of AppendLabel that inserts at the head
PrependLabel(adj, label) == <<label>> \o adj

\* adjusted.append(label)
AppendLabel(adj, label) == Append(adj, label)

\* the call of _predict(w, ss) from an entry point
Enter(w, ss, who) ==
    /\ pc' = "entered"
    /\ caller' = who
    /\ word' = w
    /\ sentences' = ss
    /\ UNCHANGED << models, fsLog, X, clfOut, feats, preds, adjusted, hits, result, error >>

WSD_Test_director ==
    /\ pc = "idle"
    /\ \E ss \in {Some(l) : l \in SentenceLists} \cup {Absent} : Enter("director", ss, "api")
    /\ UNCHANGED << outFile, outFile0 >>

WSD_Test_overtime ==
    /\ pc = "idle"
    /\ \E ss \in {Some(l) : l \in SentenceLists} \cup {Absent} : Enter("overtime", ss, "api")
    /\ UNCHANGED << outFile, outFile0 >>

WSD_Test_rubbish ==
    /\ pc = "idle"
    /\ \E ss \in {Some(l) : l \in SentenceLists} \cup {Absent} : Enter("rubbish", ss, "api")
    /\ UNCHANGED << outFile, outFile0 >>

\* lines 29-30: if sentences is None: raise ValueError
PredictCheckInput ==
    /\ pc = "entered"
    /\ IF AfterEntry(sentences) = "raise_input"
       THEN pc' = "raised" /\ error' = "ValueError"
       ELSE pc' = "load" /\ UNCHANGED error
    /\ UNCHANGED << caller, word, sentences, models, fsLog, X, clfOut, feats,
                    preds, adjusted, hits, result, outFile, outFile0 >>

\* _load_model, lines 15-22: model_path.exists(), then joblib.load or FileNotFoundError
LoadModel ==
    /\ pc = "load"
    /\ IF word \in models
       THEN /\ fsLog' = fsLog \o << <<"exists", word>>, <<"load", word>> >>
            /\ pc' = "normalize"
            /\ UNCHANGED error
       ELSE /\ fsLog' = Append(fsLog, <<"exists", word>>)
            /\ pc' = "raised"
            /\ error' = "FileNotFoundError"
    /\ UNCHANGED << caller, word, sentences, models, X, clfOut, feats, preds,
                    adjusted, hits, result, outFile, outFile0 >>

\* line 32: X = normalize_sentences(sentences); a None argument is not iterable
PredictNormalize ==
    /\ pc = "normalize"
    /\ IF sentences = Absent
       THEN pc' = "raised" /\ error' = "TypeError" /\ UNCHANGED X
       ELSE pc' = "classify" /\ X' = normalize_sentences(Val(sentences)) /\ UNCHANGED error
    /\ UNCHANGED << caller, word, sentences, models, fsLog, clfOut, feats, preds,
                    adjusted, hits, result, outFile, outFile0 >>

\* line 33: preds = model.predict(X).  The fitted pipeline computes the lexicon
\* rows of X among its features; the classifier returns one label of {1, 2} per row.
PredictClassify ==
    /\ pc = "classify"
    /\ feats' = [i \in 1..Len(X) |-> LexiconRow(word, X[i])]
    /\ \E out \in [1..Len(X) -> Labels] :
          /\ clfOut' = out
          /\ preds' = out
    /\ adjusted' = <<>>
    /\ hits' = <<>>
    /\ pc' = IF word \in {"director", "rubbish"} THEN "override" ELSE "return"
    /\ UNCHANGED << caller, word, sentences, models, fsLog, X, result, error,
                    outFile, outFile0 >>

\* lines 53-63 and 83-93: one iteration of the override loop, or its end
\* (zip stops at the shorter of X and preds; then preds = adjusted)
PredictOverride ==
    /\ pc = "override"
    /\ LET i == Len(adjusted) + 1 IN
         IF i <= Len(X) /\ i <= Len(preds)
         THEN LET s      == X[i]
                  p      == preds[i]
                  s2_hit == AnyHit(OverrideS2(word), s)
                  s1_hit == AnyHit(OverrideS1(word), s)
              IN  /\ adjusted' = AppendLabel(adjusted, Decide(s1_hit, s2_hit, p))
                  /\ hits' = Append(hits, <<s1_hit, s2_hit>>)
                  /\ UNCHANGED << preds, pc >>
         ELSE /\ preds' = adjusted
              /\ pc' = "return"
              /\ UNCHANGED << adjusted, hits >>
    /\ UNCHANGED << caller, word, sentences, models, fsLog, X, clfOut, feats,
                    result, error, outFile, outFile0 >>

\* line 95: return [int(p) for p in preds]
PredictReturn ==
    /\ pc = "return"
    /\ result' = Some(preds)
    /\ pc' = "returned"
    /\ UNCHANGED << caller, word, sentences, models, fsLog, X, clfOut, feats,
                    preds, adjusted, hits, error, outFile, outFile0 >>

-----------------------------------------------------------------------------
(***************************************************************************)
(* The command-line runner (run_wsd_cli.py).  A file's text is a sequence  *)
(* of atoms in which "\n" ends a line.                                     *)
(***************************************************************************)

\* str(p) for a label
Str(p) == IF p = 1 THEN "1" ELSE IF p = 2 THEN "2" ELSE "?"

\* "\n".join(str(p) for p in preds) + "\n"
RECURSIVE JoinLines(_)
JoinLines(ps) ==
    IF ps = <<>> THEN <<>>
    ELSE IF Len(ps) = 1 THEN <<Str(ps[1])>>
    ELSE <<Str(ps[1]), "\n">> \o JoinLines(Tail(ps))

OutputText(ps) == JoinLines(ps) \o <<"\n">>

\* lines 18-25: read the input lines and call the entry point of --word
CliMain ==
    /\ pc = "idle"
    /\ \E w \in Words, lines \in SentenceLists : Enter(w, Some(lines), "cli")
    /\ UNCHANGED << outFile, outFile0 >>

\* lines 27-29: out_path.write_text(...), reached only when the call returned
CliWrite ==
    /\ pc = "returned"
    /\ caller = "cli"
    /\ outFile' = Some(OutputText(Val(result)))
    /\ pc' = "cli_done"
    /\ UNCHANGED << caller, word, sentences, models, fsLog, X, clfOut, feats,
                    preds, adjusted, hits, result, error, outFile0 >>

\* a variant of CliFail for a runner that had opened the output path for writing
\* before the call
CliFailTruncates ==
    /\ pc = "raised"
    /\ caller = "cli"
    /\ pc' = "cli_failed"
    /\ outFile' = Some(<<>>)
    /\ UNCHANGED << caller, word, sentences, models, fsLog, X, clfOut, feats,
                    preds, adjusted, hits, result, error, outFile0 >>

\* an error of the call is not caught: main ends with the traceback
CliFail ==
    /\ pc = "raised"
    /\ caller = "cli"
    /\ pc' = "cli_failed"
    /\ UNCHANGED << caller, word, sentences, models, fsLog, X, clfOut, feats,
                    preds, adjusted, hits, result, error, outFile, outFile0 >>

-----------------------------------------------------------------------------
(***************************************************************************)
(* parse_two_sense_file (wsd_utils.py).  The argument is modelled after    *)
(* contents.splitlines(): a sequence of lines.  Indices are 0-based, as in *)
(* the code; line i of the code is contents[i + 1] here.                   *)
(***************************************************************************)

\* the most lines a corpus file has
MaxLines == 5

\* sense1_idx = None / sense2_idx = None
NoIdx == -1

\* lines of a corpus file: markers (bare and padded), sentences, and lines the
\* sentence test rejects
LinePool == {
    <<"1">>,
    <<" ", "1", "\t">>,
    <<"2">>,
    <<"a", " ", "b", " ", "c", ".">>,
    <<"\t", "d", " ", "e", " ", "f", " ">>,
    <<"a", " ", "b">>,
    <<"a", "\t", "b", "\t", "c">>,
    <<" ">>
}

Files == UNION {[1..n -> LinePool] : n \in 0..MaxLines}

\* line 18: cleaned = [line.rstrip() for line in lines]
Cleaned(f) == [i \in 1..Len(f) |-> RStrip(f[i])]

\* the characters of the class [ .,';:!?-] (line 42)
SentenceChars == {" ", ".", ",", "'", ";", ":", "!", "?", "-"}

\* a variant of is_probable_sentence that asks for 2 tokens
is_probable_sentence_2(s) ==
    (\E k \in 1..Len(s) : s[k] \in SentenceChars) /\ Len(Split(s)) >= 2

\* lines 40-42: is_probable_sentence
is_probable_sentence(s) ==
    (\E k \in 1..Len(s) : s[k] \in SentenceChars) /\ Len(Split(s)) >= 3

\* [l.strip() for l in ls if l.strip()] (lines 34-35)
RECURSIVE StripNonBlank(_)
StripNonBlank(ls) ==
    IF ls = <<>> THEN <<>>
    ELSE (IF Strip(Head(ls)) # <<>> THEN <<Strip(Head(ls))>> ELSE <<>>)
         \o StripNonBlank(Tail(ls))

\* [s for s in ls if is_probable_sentence(s)] (lines 44-45)
ProbableSentences(ls) == SelectSeq(ls, is_probable_sentence)

\* lines 33-46, with both markers found: the returned pair
CollectSenses(f, i1, i2) ==
    LET cleaned      == Cleaned(f)
        sense1_lines == StripNonBlank(Slice(cleaned, i1 + 2, i2))
        sense2_lines == StripNonBlank(Slice(cleaned, i2 + 2, Len(cleaned)))
    IN  <<ProbableSentences(sense1_lines), ProbableSentences(sense2_lines)>>

\* lines 23-28: one iteration of the marker loop, or its end
ParseScan ==
    /\ ppc = "scan"
    /\ IF idx < Len(contents)
       THEN LET line == Cleaned(contents)[idx + 1] IN
            IF sense1_idx = NoIdx /\ Strip(line) = <<"1">>
            THEN /\ sense1_idx' = idx
                 /\ idx' = idx + 1
                 /\ UNCHANGED << sense2_idx, ppc >>
            ELSE IF Strip(line) = <<"2">>
            THEN /\ sense2_idx' = idx
                 /\ ppc' = "check"
                 /\ UNCHANGED << sense1_idx, idx >>
            ELSE /\ idx' = idx + 1
                 /\ UNCHANGED << sense1_idx, sense2_idx, ppc >>
       ELSE /\ ppc' = "check"
            /\ UNCHANGED << sense1_idx, sense2_idx, idx >>
    /\ UNCHANGED << contents, pres, perr >>

\* lines 30-31: raise ValueError unless both markers were found
ParseCheckMarkers ==
    /\ ppc = "check"
    /\ IF sense1_idx = NoIdx \/ sense2_idx = NoIdx
       THEN ppc' = "raised" /\ perr' = "ValueError"
       ELSE ppc' = "collect" /\ UNCHANGED perr
    /\ UNCHANGED << contents, idx, sense1_idx, sense2_idx, pres >>

\* lines 33-46: collect, filter and return
ParseCollect ==
    /\ ppc = "collect"
    /\ pres' = Some(CollectSenses(contents, sense1_idx, sense2_idx))
    /\ ppc' = "returned"
    /\ UNCHANGED << contents, idx, sense1_idx, sense2_idx, perr >>

-----------------------------------------------------------------------------
(***************************************************************************)
(* augment_sentences (wsd_utils.py) and the process-wide random generator. *)
(***************************************************************************)

\* the longest sentence list handed to the augmenter
MaxAugSents == 2

\* the largest num_augmentations
MaxAug == 2

\* how many calls are made on the one input
MaxCalls == 2

\* sentences to augment: rules that apply, a short sentence, one no rule changes
AugPool == {
    <<"The", " ", "film", " ", "director", " ", "is", " ", "here">>,
    <<"he", " ", "has", " ", "overtime", " ", "pay">>,
    <<"rubbish", " ", "is", " ", "bad">>,
    <<"we", " ", "saw", " ", "it", " ", "today">>
}

AugLists == UNION {[1..n -> AugPool] : n \in 0..MaxAugSents}

\* The generator is its seed and how many choices were drawn since seeding.
\* ChoiceStream(seed)[pos + 1] is the index random.choice(replacements) returns
\* at that point: CPython's Mersenne Twister for random.seed(42), and for the
\* seed 7 standing for any other state the process may have left it in.
ChoiceStream(seed) ==
    IF seed = 42 THEN <<5, 0, 0, 5, 2, 1, 1, 1, 5, 0, 5, 5>>
    ELSE <<2, 1, 3, 5, 0, 0, 4, 0, 2, 4, 0, 4>>

StreamLen == Len(ChoiceStream(42))

\* random.choice(replacements): the index drawn in state r, and the state after
Draw(r) == ChoiceStream(r.seed)[r.pos + 1]
Advance(r) == [r EXCEPT !.pos = (r.pos + 1) % StreamLen]

\* a variant of Seeded for a call that does not seed the generator
NotSeeded(r) == r

\* line 126: random.seed(42)
Seeded(r) == [seed |-> 42, pos |-> 0]

\* the target words of the last replacement rule (line 138)
TargetWords == {"director", "overtime", "rubbish"}

\* lines 129-139: the pattern of replacements[k]
ReplPattern(k) ==
    CASE k = 0 -> Cat(<<WB, Lit("is"), WB>>)
      [] k = 1 -> Cat(<<WB, Lit("has"), WB>>)
      [] k = 2 -> Cat(<<WB, Lit("does"), WB>>)
      [] k = 3 -> Cat(<<WB, Lit("the"), WsPlus>>)
      [] k = 4 -> Cat(<<WB, Lit("a"), WsPlus>>)
      [] k = 5 -> Cat(<<WB, WordPlus, WsPlus, AnyOf(TargetWords)>>)

\* the end of the maximal run of word atoms of s that starts at i
RECURSIVE WordRunEnd(_, _)
WordRunEnd(s, i) == IF WordAt(s, i) THEN WordRunEnd(s, i + 1) ELSE i

\* lines 129-139: what replacements[k] puts in place of the match s[i..j-1]
ReplText(k, s, i, j) ==
    CASE k = 0 -> <<"was">>
      [] k = 1 -> <<"had">>
      [] k = 2 -> <<"did">>
      [] k = 3 -> <<"a", " ">>
      [] k = 4 -> <<"the", " ">>
      [] k = 5 -> Slice(s, i, WordRunEnd(s, i) - 1) \o <<",", " ", "the", " ", s[j - 1]>>

SetMin(S) == CHOOSE x \in S : \A y \in S : x <= y
SetMax(S) == CHOOSE x \in S : \A y \in S : x >= y

\* line 148: re.sub(rep[0], rep[1], variant, count=1, flags=re.I): the leftmost
\* match, taken greedily, is replaced; without a match the sentence is unchanged
SubOnce(k, s) ==
    LET starts == {i \in 1..(Len(s) + 1) : Ends(ReplPattern(k), s, i) # {}} IN
    IF starts = {} THEN s
    ELSE LET i == SetMin(starts)
             j == SetMax(Ends(ReplPattern(k), s, i))
         IN  Slice(s, 1, i - 1) \o ReplText(k, s, i, j) \o Slice(s, j, Len(s))

\* a variant of Cap that counts the variants only
CapVariantsOnly(xs, n) == Len(xs) * n

\* len(sentences) * (1 + num_augmentations) (lines 153, 155, 158)
Cap(xs, n) == Len(xs) * (1 + n)

\* lines 124-126: augmented = list(sentences); random.seed(42)
AugmentCall ==
    /\ apc = "idle"
    /\ ncalls < MaxCalls
    /\ ncalls' = ncalls + 1
    /\ rng0' = rng
    /\ rng' = Seeded(rng)
    /\ augmented' = asents
    /\ apass' = 0
    /\ ai' = 0
    /\ ares' = Absent
    /\ apc' = "loop"
    /\ UNCHANGED << asents, anum, seen >>

\* lines 141-156: one step of the two loops: the end of the passes, the end of
\* a pass (with the check of the cap), or the body for one sentence
AugmentStep ==
    /\ apc = "loop"
    /\ IF apass >= anum
       THEN /\ apc' = "return"
            /\ UNCHANGED << rng, augmented, apass, ai >>
       ELSE IF ai >= Len(asents)
       THEN /\ IF Len(augmented) >= Cap(asents, anum)
               THEN apc' = "return" /\ UNCHANGED << apass, ai >>
               ELSE apc' = "loop" /\ apass' = apass + 1 /\ ai' = 0
            /\ UNCHANGED << rng, augmented >>
       ELSE LET sent == asents[ai + 1] IN
            IF Len(Split(sent)) < 4
            THEN /\ ai' = ai + 1
                 /\ UNCHANGED << rng, augmented, apass, apc >>
            ELSE LET variant == SubOnce(Draw(rng), sent)
                     keep    == variant # sent /\ Len(Split(variant)) >= 3
                     grown   == IF keep THEN Append(augmented, variant) ELSE augmented
                 IN  /\ rng' = Advance(rng)
                     /\ augmented' = grown
                     /\ ai' = IF keep /\ Len(grown) >= Cap(asents, anum)
                              THEN Len(asents)
                              ELSE ai + 1
                     /\ UNCHANGED << apass, apc >>
    /\ UNCHANGED << asents, anum, ares, seen, ncalls, rng0 >>

\* line 158: return augmented[:len(sentences) * (1 + num_augmentations)]
AugmentReturn ==
    /\ apc = "return"
    /\ ares' = Some(Slice(augmented, 1,
                          IF Cap(asents, anum) < Len(augmented)
                          THEN Cap(asents, anum) ELSE Len(augmented)))
    /\ seen' = seen \cup {Val(ares')}
    /\ apc' = "returned"
    /\ UNCHANGED << rng, asents, anum, augmented, apass, ai, ncalls, rng0 >>

\* the caller goes on; the same input may be augmented again
AugmentDone ==
    /\ apc = "returned"
    /\ apc' = "idle"
    /\ UNCHANGED << rng, asents, anum, augmented, apass, ai, ares, seen, ncalls, rng0 >>

\* between two calls anything else may draw from, or reseed, the process-wide
\* generator (another augmentation call among them)
OtherRandomUse ==
    /\ apc = "idle"
    /\ rng' \in ({Advance(rng)} \cup {[seed |-> s, pos |-> 0] : s \in {7, 42}}) \ {rng}
    /\ UNCHANGED << apc, asents, anum, augmented, apass, ai, ares, seen, ncalls, rng0 >>

-----------------------------------------------------------------------------
(***************************************************************************)
(* The training runner (train_wsd.py).  The fitted pipeline is opaque: a   *)
(* fit succeeds when the training labels hold both senses, and raises      *)
(* ValueError otherwise.                                                   *)
(***************************************************************************)

\* the most words on the command line
MaxWords == 2

\* lines 25-29: the words that have a corpus file
DATA_FILES == {"director", "overtime", "rubbish"}

\* what --words may hold: the known words and one unknown word
RequestedWords == DATA_FILES \cup {"bank"}

WordLists == UNION {[1..n -> RequestedWords] : n \in 0..MaxWords}

Sense1Line == <<"the", " ", "film", " ", "director", " ", "spoke", ".">>
Sense2Line == <<"\t", "board", " ", "director", " ", "quit", " ">>

\* corpus files: a complete one, one without markers, one without sentences for
\* sense 2, and one whose only sense-2 text is its gloss line
TrainFiles == {
    << <<"1">>, Sense1Line, <<"2">>, Sense2Line >>,
    << Sense1Line, Sense2Line >>,
    << <<"1">>, Sense1Line, <<"2">> >>,
    << <<"1">>, Sense1Line, <<"2">>, <<"2", ".", " ", "manager">> >>
}

\* what load_stage1_sentences returns: ([], []) without a stage-1 file
Stage1Results == { << <<>>, <<>> >>, << <<>>, << Strip(Sense2Line) >> >> }

Corpora == [file : {Absent} \cup {Some(f) : f \in TrainFiles}, stage1 : Stage1Results]

\* wsd_utils.py lines 20-28: the marker loop, from line i on, with the sense-1
\* index s1 found so far; the pair <<sense1_idx, sense2_idx>>
RECURSIVE FindMarkers(_, _, _)
FindMarkers(cleaned, i, s1) ==
    IF i >= Len(cleaned) THEN <<s1, NoIdx>>
    ELSE IF s1 = NoIdx /\ Strip(cleaned[i + 1]) = <<"1">>
         THEN FindMarkers(cleaned, i + 1, i)
    ELSE IF Strip(cleaned[i + 1]) = <<"2">> THEN <<s1, i>>
    ELSE FindMarkers(cleaned, i + 1, s1)

\* wsd_utils.py lines 68-80: the gloss of sense d ("1" or "2"): the text after
\* `d`, an optional '.' or ':' and whitespace, on the first such line among the
\* first 15, or <<>> for None
GlossOf(line, d) ==
    LET l    == Strip(line)
        from == IF Len(l) >= 2 /\ l[2] \in {".", ":"} THEN 3 ELSE 2
    IN  IF Len(l) > from /\ l[1] = d /\ l[from] \in WS
        THEN Strip(Slice(l, from, Len(l)))
        ELSE <<>>

RECURSIVE FirstGloss(_, _)
FirstGloss(ls, d) ==
    IF ls = <<>> THEN <<>>
    ELSE IF GlossOf(Head(ls), d) # <<>> THEN GlossOf(Head(ls), d)
    ELSE FirstGloss(Tail(ls), d)

parse_glosses(f) ==
    LET top == Slice(f, 1, IF Len(f) < 15 THEN Len(f) ELSE 15)
    IN  << FirstGloss(top, "1"), FirstGloss(top, "2") >>

\* train_wsd.py lines 40-58: the two sentence lists of a corpus whose markers
\* were found: parsed sentences, stage-1 sentences, gloss, then normalized
SenseLists(c) ==
    LET f  == Val(c.file)
        mk == FindMarkers(Cleaned(f), 0, NoIdx)
        ps == CollectSenses(f, mk[1], mk[2])
        g  == parse_glosses(f)
        l1 == ps[1] \o c.stage1[1] \o (IF g[1] # <<>> THEN <<g[1]>> ELSE <<>>)
        l2 == ps[2] \o c.stage1[2] \o (IF g[2] # <<>> THEN <<g[2]>> ELSE <<>>)
    IN  << normalize_sentences(l1), normalize_sentences(l2) >>

\* train_wsd.py lines 61-71: the labels that occur in y.  augment_sentences
\* starts from a copy of its input (wsd_utils.py line 124) and returns at
\* least that many elements, so a list is empty after it iff it was before.
LabelsOf(c) ==
    {k \in {1, 2} : SenseLists(c)[k] # <<>>}

\* train_and_save_for_word (train_wsd.py lines 138-149) for one corpus: "ok"
\* when the model is fitted and saved, else the exception it raises
TrainOutcome(c) ==
    IF c.file = Absent THEN "FileNotFoundError"
    ELSE LET mk == FindMarkers(Cleaned(Val(c.file)), 0, NoIdx) IN
         IF mk[1] = NoIdx \/ mk[2] = NoIdx THEN "ValueError"
         ELSE IF LabelsOf(c) # {1, 2} THEN "ValueError"
         ELSE "ok"

\* lines 176-179: an unknown word is reported and skipped
TrainSkip ==
    /\ tpc = "loop"
    /\ wi <= Len(words)
    /\ words[wi] \notin DATA_FILES
    /\ skipped' = skipped \cup {words[wi]}
    /\ wi' = wi + 1
    /\ UNCHANGED << words, corpus, tpc, saved, terr >>

\* line 180: train_and_save_for_word; nothing in main catches what it raises
TrainAndSave ==
    /\ tpc = "loop"
    /\ wi <= Len(words)
    /\ words[wi] \in DATA_FILES
    /\ LET outcome == TrainOutcome(corpus[words[wi]]) IN
       IF outcome = "ok"
       THEN /\ saved' = saved \cup {words[wi]}
            /\ wi' = wi + 1
            /\ UNCHANGED << tpc, terr >>
       ELSE /\ terr' = outcome
            /\ tpc' = "failed"
            /\ UNCHANGED << saved, wi >>
    /\ UNCHANGED << words, corpus, skipped >>

\* the loop of line 176 is exhausted: main returns
TrainEnd ==
    /\ tpc = "loop"
    /\ wi > Len(words)
    /\ tpc' = "done"
    /\ UNCHANGED << words, corpus, wi, saved, skipped, terr >>

-----------------------------------------------------------------------------
(***************************************************************************)
(* normalize_sentences (wsd_utils.py), as the loop the code runs, applied  *)
(* to a list and then to its own output.                                   *)
(***************************************************************************)

\* the longest list handed to the normalizer
MaxNorm == 2

\* strings to normalize: empty, blank, padded, with runs of spaces and tabs
NormPool == {
    <<>>,
    <<" ", "\t">>,
    <<"a", " ", "b">>,
    <<"\t", " ", "a", ".">>,
    <<"a", " ", " ", "b", "\t">>,
    <<" ", "a", "\t", "\t", " ", "b", " ", "c", ",", " ">>
}

NormLists == UNION {[1..n -> NormPool] : n \in 0..MaxNorm}

\* lines 53-54: out = []; the loop starts
NormalizeCall ==
    /\ npc = "idle"
    /\ nres = <<>>
    /\ nin' = nsents
    /\ nout' = <<>>
    /\ npc' = "loop"
    /\ UNCHANGED << nsents, nres >>

\* lines 54-56: one iteration: s = re.sub(...).strip(); out.append(s)
NormalizeStep ==
    /\ npc = "loop"
    /\ Len(nout) < Len(nin)
    /\ nout' = Append(nout, NormalizeOne(nin[Len(nout) + 1]))
    /\ UNCHANGED << nsents, nin, nres, npc >>

\* line 57: return out
NormalizeReturn ==
    /\ npc = "loop"
    /\ Len(nout) = Len(nin)
    /\ nres' = Append(nres, nout)
    /\ npc' = "returned"
    /\ UNCHANGED << nsents, nin, nout >>

\* the caller normalizes the returned list again (train_wsd.py lines 57-58,
\* then 66-67 on lists that start with the normalized ones)
NormalizeAgain ==
    /\ npc = "returned"
    /\ Len(nres) = 1
    /\ nin' = nres[1]
    /\ nout' = <<>>
    /\ npc' = "loop"
    /\ UNCHANGED << nsents, nres >>

-----------------------------------------------------------------------------
(***************************************************************************)
(* load_word_data (train_wsd.py), with its default flags use_stage1 and    *)
(* use_augmentation, step by step.                                         *)
(***************************************************************************)

\* the most lines a corpus file handed to load_word_data has
MaxLoadLines == 4

LongSense2Line == <<"\t", "the", " ", "board", " ", "director", " ", "is", " ", "out", " ">>

\* lines of such a file: markers, a sentence per sense, a one-word gloss of
\* sense 2 and a longer gloss of sense 1
LoadLinePool == {
    <<"1">>,
    <<"2">>,
    Sense1Line,
    LongSense2Line,
    <<"2", ".", " ", "manager">>,
    <<"1", ":", " ", "a", " ", "film", " ", "maker">>
}

LoadFiles == UNION {[1..n -> LoadLinePool] : n \in 0..MaxLoadLines}

LoadCorpora == [file : {Absent} \cup {Some(f) : f \in LoadFiles}, stage1 : Stage1Results]

\* wsd_utils.py lines 141-156 as a function: the two loops from pass `pass`,
\* sentence index i, list aug and generator state r; the final list and state
RECURSIVE AugLoop(_, _, _, _, _, _)
AugLoop(xs, n, pass, i, aug, r) ==
    IF pass >= n THEN [aug |-> aug, r |-> r]
    ELSE IF i >= Len(xs)
    THEN IF Len(aug) >= Cap(xs, n) THEN [aug |-> aug, r |-> r]
         ELSE AugLoop(xs, n, pass + 1, 0, aug, r)
    ELSE IF Len(Split(xs[i + 1])) < 4 THEN AugLoop(xs, n, pass, i + 1, aug, r)
    ELSE LET variant == SubOnce(Draw(r), xs[i + 1])
             keep    == variant # xs[i + 1] /\ Len(Split(variant)) >= 3
             grown   == IF keep THEN Append(aug, variant) ELSE aug
         IN  AugLoop(xs, n, pass,
                     IF keep /\ Len(grown) >= Cap(xs, n) THEN Len(xs) ELSE i + 1,
                     grown, Advance(r))

\* wsd_utils.py lines 119-158: the returned list and the generator's state after
augment_sentences(xs, n, r) ==
    LET end == AugLoop(xs, n, 0, 0, xs, Seeded(r))
        cap == IF Cap(xs, n) < Len(end.aug) THEN Cap(xs, n) ELSE Len(end.aug)
    IN  [out |-> Slice(end.aug, 1, cap), r |-> end.r]

\* lines 38-40: read the file and parse it
LoadRead ==
    /\ lpc = "start"
    /\ IF lcorpus.file = Absent
       THEN /\ lerr' = "FileNotFoundError"
            /\ lpc' = "raised"
            /\ UNCHANGED << ls1, ls2 >>
       ELSE LET f  == Val(lcorpus.file)
                mk == FindMarkers(Cleaned(f), 0, NoIdx)
            IN  IF mk[1] = NoIdx \/ mk[2] = NoIdx
                THEN /\ lerr' = "ValueError"
                     /\ lpc' = "raised"
                     /\ UNCHANGED << ls1, ls2 >>
                ELSE /\ ls1' = CollectSenses(f, mk[1], mk[2])[1]
                     /\ ls2' = CollectSenses(f, mk[1], mk[2])[2]
                     /\ lpc' = "stage1"
                     /\ UNCHANGED lerr
    /\ UNCHANGED << lcorpus, lX, ly, rng >>

\* lines 43-48: the stage-1 sentences extend the two lists
LoadStage1 ==
    /\ lpc = "stage1"
    /\ ls1' = ls1 \o lcorpus.stage1[1]
    /\ ls2' = ls2 \o lcorpus.stage1[2]
    /\ lpc' = "gloss"
    /\ UNCHANGED << lcorpus, lX, ly, lerr, rng >>

\* lines 51-55: a gloss that was found is appended to its list
LoadGlosses ==
    /\ lpc = "gloss"
    /\ LET g == parse_glosses(Val(lcorpus.file)) IN
       /\ ls1' = IF g[1] # <<>> THEN Append(ls1, g[1]) ELSE ls1
       /\ ls2' = IF g[2] # <<>> THEN Append(ls2, g[2]) ELSE ls2
    /\ lpc' = "normalize"
    /\ UNCHANGED << lcorpus, lX, ly, lerr, rng >>

\* lines 57-58
LoadNormalize ==
    /\ lpc = "normalize"
    /\ ls1' = normalize_sentences(ls1)
    /\ ls2' = normalize_sentences(ls2)
    /\ lpc' = "augment"
    /\ UNCHANGED << lcorpus, lX, ly, lerr, rng >>

\* lines 61-67: both lists are augmented, then normalized again
LoadAugment ==
    /\ lpc = "augment"
    /\ LET num_aug == IF Len(ls1) + Len(ls2) < 60 THEN 3 ELSE 2
           a1      == augment_sentences(ls1, num_aug, rng)
           a2      == augment_sentences(ls2, num_aug, a1.r)
       IN  /\ ls1' = normalize_sentences(a1.out)
           /\ ls2' = normalize_sentences(a2.out)
           /\ rng' = a2.r
    /\ lpc' = "label"
    /\ UNCHANGED << lcorpus, lX, ly, lerr >>

\* lines 69-72: X = s1 + s2; y = [1] * len(s1) + [2] * len(s2)
LoadReturn ==
    /\ lpc = "label"
    /\ lX' = ls1 \o ls2
    /\ ly' = [i \in 1..(Len(ls1) + Len(ls2)) |-> IF i <= Len(ls1) THEN 1 ELSE 2]
    /\ lpc' = "returned"
    /\ UNCHANGED << lcorpus, ls1, ls2, lerr, rng >>

-----------------------------------------------------------------------------
(***************************************************************************)
(* load_stage1_sentences (wsd_utils.py).  The file is modelled after       *)
(* contents.splitlines(): Absent when the path does not exist.             *)
(***************************************************************************)

\* the most lines a stage-1 file has
MaxStage1Lines == 4

\* lines of a stage-1 file: the two headers, a line naming both senses, a
\* numbered line that names a sense, numbered lines with 3 and with 2 tokens
\* of text, a numbered line without a space after the number, an unnumbered line
Stage1LinePool == {
    <<"Sense", " ", "1">>,
    <<" ", "sense", " ", "2", ":">>,
    <<"Sense", " ", "1", " ", "vs", " ", "sense", " ", "2">>,
    <<"3", ".", " ", "SENSE", " ", "2", " ", "is", " ", "meant">>,
    <<"1", ")", " ", "the", " ", "board", " ", "met", "\t">>,
    <<"2", ".", " ", "too", " ", "short">>,
    <<"1", "2", ")", "we", " ", "ran", " ", "late">>,
    <<"the", " ", "board", " ", "met">>
}

Stage1Files ==
    {Absent} \cup {Some(f) : f \in UNION {[1..n -> Stage1LinePool] : n \in 0..MaxStage1Lines}}

\* the digits, and the spellings of "sense" that lower() maps to it
DigitAtoms == {"0", "1", "2", "3"}
SenseAtoms == {"sense", "Sense", "SENSE"}

\* lines 99, 103: "sense d" in line.lower() (which "Sense d" in line implies)
HasSense(line, d) ==
    \E k \in 1..(Len(line) - 2) :
        line[k] \in SenseAtoms /\ line[k + 1] = " " /\ line[k + 2] = d

\* a variant of HeaderOf that tests for sense 2 first
HeaderOfSense2First(line) ==
    IF HasSense(line, "2") THEN 2 ELSE IF HasSense(line, "1") THEN 1 ELSE 0

\* lines 99-106: which header branch a line takes: 1, 2, or 0 for neither
HeaderOf(line) ==
    IF HasSense(line, "1") THEN 1 ELSE IF HasSense(line, "2") THEN 2 ELSE 0

\* the index after the run of digit atoms of l that starts at i
RECURSIVE DigitRunEnd(_, _)
DigitRunEnd(l, i) ==
    IF i <= Len(l) /\ l[i] \in DigitAtoms THEN DigitRunEnd(l, i + 1) ELSE i

\* lines 108-110: m.group(1).strip() for re.match(r"^\d+[).]\s*(.+)$", line),
\* or <<>> when the line does not match
NumberedText(line) ==
    LET d == DigitRunEnd(line, 1) IN
    IF d > 1 /\ d <= Len(line) /\ line[d] \in {")", "."}
    THEN Strip(Slice(line, d + 1, Len(line)))
    ELSE <<>>

\* lines 88-97: an absent file returns two empty lists; else the loop starts
Stage1Open ==
    /\ s1pc = "start"
    /\ IF s1file = Absent
       THEN s1res' = Some(<< <<>>, <<>> >>) /\ s1pc' = "returned"
       ELSE s1pc' = "loop" /\ UNCHANGED s1res
    /\ UNCHANGED << s1file, s1i, in_s1, in_s2, st1, st2 >>

\* lines 98-115: one iteration of the loop over the stripped lines
Stage1Line ==
    /\ s1pc = "loop"
    /\ s1i < Len(Val(s1file))
    /\ s1i' = s1i + 1
    /\ LET line == Strip(Val(s1file)[s1i + 1])
           sent == NumberedText(line)
       IN  IF HeaderOf(line) = 1
           THEN in_s1' = TRUE /\ in_s2' = FALSE /\ UNCHANGED << st1, st2 >>
           ELSE IF HeaderOf(line) = 2
           THEN in_s1' = FALSE /\ in_s2' = TRUE /\ UNCHANGED << st1, st2 >>
           ELSE IF sent # <<>> /\ Len(Split(sent)) >= 3
           THEN IF in_s1
                THEN st1' = Append(st1, sent) /\ UNCHANGED << st2, in_s1, in_s2 >>
                ELSE IF in_s2
                THEN st2' = Append(st2, sent) /\ UNCHANGED << st1, in_s1, in_s2 >>
                ELSE UNCHANGED << st1, st2, in_s1, in_s2 >>
           ELSE UNCHANGED << st1, st2, in_s1, in_s2 >>
    /\ UNCHANGED << s1file, s1pc, s1res >>

\* line 116: return s1, s2
Stage1Return ==
    /\ s1pc = "loop"
    /\ s1i = Len(Val(s1file))
    /\ s1res' = Some(<<st1, st2>>)
    /\ s1pc' = "returned"
    /\ UNCHANGED << s1file, s1i, in_s1, in_s2, st1, st2 >>

-----------------------------------------------------------------------------
(***************************************************************************)
(* Idle values of each program's variables, for the specifications that    *)
(* do not run it.                                                          *)
(***************************************************************************)

PredictIdle ==
    /\ pc = "off" /\ caller = None /\ word = None /\ sentences = Absent
    /\ models = {} /\ fsLog = <<>> /\ X = <<>> /\ clfOut = <<>> /\ feats = <<>>
    /\ preds = <<>> /\ adjusted = <<>> /\ hits = <<>> /\ result = Absent /\ error = None
    /\ outFile = Absent /\ outFile0 = Absent

ParseIdle ==
    /\ contents = <<>> /\ ppc = "off" /\ idx = 0
    /\ sense1_idx = NoIdx /\ sense2_idx = NoIdx /\ pres = Absent /\ perr = None

AugmentIdle ==
    /\ rng = [seed |-> 0, pos |-> 0] /\ apc = "off" /\ asents = <<>> /\ anum = 0
    /\ augmented = <<>> /\ apass = 0 /\ ai = 0 /\ ares = Absent /\ seen = {}
    /\ ncalls = 0 /\ rng0 = [seed |-> 0, pos |-> 0]

TrainIdle ==
    /\ words = <<>> /\ corpus = <<>> /\ tpc = "off" /\ wi = 1
    /\ saved = {} /\ skipped = {} /\ terr = None

NormIdle ==
    /\ nsents = <<>> /\ nin = <<>> /\ nout = <<>> /\ nres = <<>> /\ npc = "off"

Stage1Idle ==
    /\ s1file = Absent /\ s1pc = "off" /\ s1i = 0 /\ in_s1 = FALSE /\ in_s2 = FALSE
    /\ st1 = <<>> /\ st2 = <<>> /\ s1res = Absent

LoadIdle ==
    /\ lcorpus = <<>> /\ lpc = "off" /\ ls1 = <<>> /\ ls2 = <<>>
    /\ lX = <<>> /\ ly = <<>> /\ lerr = None

\* the programs added after the first four are not running
OthersIdle == NormIdle /\ Stage1Idle /\ LoadIdle

-----------------------------------------------------------------------------
(***************************************************************************)
(* Spec: a prediction call, made directly or by the command-line runner.   *)
(***************************************************************************)

\* the model stores a call may find: nothing trained, one word trained, all trained
ModelStores == {{}, {"overtime"}, Words}

\* what may already be at the CLI's output path
OldOutputs == {Absent, Some(<<"2", "\n">>)}

Init ==
    /\ pc = "idle" /\ caller = None /\ word = None /\ sentences = Absent
    /\ models \in ModelStores
    /\ fsLog = <<>> /\ X = <<>> /\ clfOut = <<>> /\ feats = <<>>
    /\ preds = <<>> /\ adjusted = <<>> /\ hits = <<>> /\ result = Absent /\ error = None
    /\ outFile \in OldOutputs /\ outFile0 = outFile
    /\ ParseIdle /\ AugmentIdle /\ TrainIdle /\ OthersIdle

Next ==
    \/ (WSD_Test_director /\ UNCHANGED << parseVars, augmentVars, trainVars,
                       normVars, stage1Vars, loadVars >>)
    \/ (WSD_Test_overtime /\ UNCHANGED << parseVars, augmentVars, trainVars,
                       normVars, stage1Vars, loadVars >>)
    \/ (WSD_Test_rubbish /\ UNCHANGED << parseVars, augmentVars, trainVars,
                       normVars, stage1Vars, loadVars >>)
    \/ (CliMain /\ UNCHANGED << parseVars, augmentVars, trainVars,
                       normVars, stage1Vars, loadVars >>)
    \/ (PredictCheckInput /\ UNCHANGED << parseVars, augmentVars, trainVars,
                       normVars, stage1Vars, loadVars >>)
    \/ (LoadModel /\ UNCHANGED << parseVars, augmentVars, trainVars,
                       normVars, stage1Vars, loadVars >>)
    \/ (PredictNormalize /\ UNCHANGED << parseVars, augmentVars, trainVars,
                       normVars, stage1Vars, loadVars >>)
    \/ (PredictClassify /\ UNCHANGED << parseVars, augmentVars, trainVars,
                       normVars, stage1Vars, loadVars >>)
    \/ (PredictOverride /\ UNCHANGED << parseVars, augmentVars, trainVars,
                       normVars, stage1Vars, loadVars >>)
    \/ (PredictReturn /\ UNCHANGED << parseVars, augmentVars, trainVars,
                       normVars, stage1Vars, loadVars >>)
    \/ (CliWrite /\ UNCHANGED << parseVars, augmentVars, trainVars,
                       normVars, stage1Vars, loadVars >>)
    \/ (CliFail /\ UNCHANGED << parseVars, augmentVars, trainVars,
                       normVars, stage1Vars, loadVars >>)

Spec == Init /\ [][Next]_vars

-----------------------------------------------------------------------------
(***************************************************************************)
(* Properties of the prediction call (checked under Spec).                 *)
(***************************************************************************)

\* the call has returned its list
Returned == result # Absent

\* the override loop ran over all of X (the call is for a cue-bearing word)
Overridden == Returned /\ word \in {"director", "rubbish"} /\ Len(hits) = Len(X)

\* C1: for "director" and "rubbish" the returned label of a normalized sentence
\* is 2 when only sense-2 cues match, 1 when only sense-1 cues match, and the
\* classifier's label p when both or neither match; for "overtime" it is always p.
C1_OverrideRule ==
    Returned =>
        /\ Len(Val(result)) = Len(X)
        /\ word \in {"director", "rubbish"} =>
              /\ Len(hits) = Len(X)
              /\ \A i \in 1..Len(X) :
                    LET p  == clfOut[i]
                        r  == Val(result)[i]
                        m1 == hits[i][1]
                        m2 == hits[i][2]
                    IN  /\ (m2 /\ ~m1) => r = 2
                        /\ (m1 /\ ~m2) => r = 1
                        /\ ((m1 /\ m2) \/ (~m1 /\ ~m2)) => r = p
        /\ word = "overtime" => \A i \in 1..Len(X) : Val(result)[i] = clfOut[i]

\* C1 witness: a returned call for "rubbish" in which one label was overridden
\* against the classifier and one sentence matching both cue sets kept its label
C1_Witness ==
    /\ Overridden
    /\ word = "rubbish"
    /\ \E i, j \in 1..Len(X) :
          /\ hits[i] = <<FALSE, TRUE>>
          /\ clfOut[i] = 1 /\ Val(result)[i] = 2
          /\ hits[j] = <<TRUE, TRUE>>
          /\ Val(result)[j] = clfOut[j]

\* C2 as stated: the override's sense-k hit is true exactly when the lexicon
\* feature column for sense k is at least 1 (the two layers use the same sets).
C2_SameCueSets ==
    Overridden =>
        \A i \in 1..Len(X) :
            /\ hits[i][1] <=> (feats[i][1] >= 1)
            /\ hits[i][2] <=> (feats[i][2] >= 1)

\* C2 as amended: every override cue set is contained in the lexicon's set for
\* the same word and sense, so an override sense-k hit implies a lexicon column
\* k of at least 1; for sense 2 of "rubbish" the sets are equal and the two agree.
C2_OverrideWithinLexicon ==
    Overridden =>
        \A i \in 1..Len(X) :
            /\ hits[i][1] => (feats[i][1] >= 1)
            /\ hits[i][2] => (feats[i][2] >= 1)
            /\ word = "rubbish" => (hits[i][2] <=> (feats[i][2] >= 1))

\* C2 witness: a returned "director" call with a sentence whose sense-2 cue hit
\* shows in the lexicon column, and a sentence the lexicon counts for sense 1
\* while no override cue of sense 1 matches it
C2_Witness ==
    /\ Overridden
    /\ word = "director"
    /\ \E i, j \in 1..Len(X) :
          /\ hits[i][2] /\ feats[i][2] >= 1
          /\ ~hits[j][1] /\ feats[j][1] >= 1

C4_InputErrorBeforeLoad ==
    (pc # "idle" /\ sentences = Absent) =>
        /\ fsLog = <<>>
        /\ pc \in {"entered", "raised"}
        /\ pc = "raised" => error = "ValueError"

\* C4 witness: the call with None has failed while the word's model is missing
C4_Witness ==
    /\ pc = "raised"
    /\ sentences = Absent
    /\ word \notin models
    /\ error = "ValueError"

\* str.splitlines() of a text whose lines end in "\n"
RECURSIVE SplitLinesFrom(_, _)
SplitLinesFrom(text, cur) ==
    IF text = <<>> THEN (IF cur = <<>> THEN <<>> ELSE <<cur>>)
    ELSE IF Head(text) = "\n"
         THEN <<cur>> \o SplitLinesFrom(Tail(text), <<>>)
         ELSE SplitLinesFrom(Tail(text), Append(cur, Head(text)))

SplitLines(text) == SplitLinesFrom(text, <<>>)

\* the lines of a text that hold something
LabelLines(text) == SelectSeq(SplitLines(text), LAMBDA l : l # <<>>)

\* C10: the command-line runner leaves the output path as it was until the
\* whole prediction list has been returned (so a failed call creates and
\* modifies nothing), and after the write the file holds one label per input
\* line, in input order.
C10_OutputOnlyAfterPredictions ==
    caller = "cli" =>
        /\ pc # "cli_done" => outFile = outFile0
        /\ pc = "cli_done" =>
              /\ Returned
              /\ outFile # Absent
              /\ LET n == Len(Val(sentences))
                     ls == LabelLines(Val(outFile))
                 IN  /\ Len(ls) = n
                     /\ \A i \in 1..n : ls[i] = <<Str(Val(result)[i])>>
                     /\ n >= 1 => SplitLines(Val(outFile)) = ls

\* C10 witness: a run whose call failed on a missing model, with no output file
\* before the run and none after it
C10_Witness ==
    /\ caller = "cli"
    /\ pc = "cli_failed"
    /\ error = "FileNotFoundError"
    /\ outFile0 = Absent
    /\ outFile = Absent


-----------------------------------------------------------------------------
(***************************************************************************)
(* SpecParse: one call of parse_two_sense_file on a file of Files.         *)
(***************************************************************************)

InitParse ==
    /\ contents \in Files
    /\ ppc = "scan" /\ idx = 0
    /\ sense1_idx = NoIdx /\ sense2_idx = NoIdx /\ pres = Absent /\ perr = None
    /\ PredictIdle /\ AugmentIdle /\ TrainIdle /\ OthersIdle

NextParse ==
    \/ (ParseScan /\ UNCHANGED << predictVars, augmentVars, trainVars,
                       normVars, stage1Vars, loadVars >>)
    \/ (ParseCheckMarkers /\ UNCHANGED << predictVars, augmentVars, trainVars,
                       normVars, stage1Vars, loadVars >>)
    \/ (ParseCollect /\ UNCHANGED << predictVars, augmentVars, trainVars,
                       normVars, stage1Vars, loadVars >>)

SpecParse == InitParse /\ [][NextParse]_vars

\* the trimmed content of line k (1-based) of the file
Trimmed(k) == Strip(contents[k])

\* the file has a line that is exactly "1" and, later, a line that is exactly "2"
HasOneThenTwo ==
    \E i, j \in 1..Len(contents) :
        i < j /\ Trimmed(i) = <<"1">> /\ Trimmed(j) = <<"2">>

\* C5: the '1' marker is the first line trimmed to "1", the '2' marker the first
\* line after it trimmed to "2", and the call fails with the configuration
\* error if and only if the file has no "1" line followed later by a "2" line.
C5_FailsIffNoMarkers ==
    /\ ppc = "raised" => (perr = "ValueError" /\ ~HasOneThenTwo)
    /\ ppc \in {"collect", "returned"} =>
          /\ HasOneThenTwo
          /\ Trimmed(sense1_idx + 1) = <<"1">>
          /\ \A k \in 1..sense1_idx : Trimmed(k) # <<"1">>
          /\ sense2_idx > sense1_idx
          /\ Trimmed(sense2_idx + 1) = <<"2">>
          /\ \A k \in (sense1_idx + 2)..sense2_idx : Trimmed(k) # <<"2">>

\* the number of whitespace-delimited tokens of s: the positions where one starts
TokenCount(s) ==
    Cardinality({k \in 1..Len(s) : s[k] \notin WS /\ (k = 1 \/ s[k - 1] \in WS)})

\* line k is one the claim says is returned: non-blank once trimmed, holding a
\* space or one of .,';:!?- and at least 3 tokens
Accepted(k) ==
    /\ Trimmed(k) # <<>>
    /\ \E m \in 1..Len(Trimmed(k)) : Trimmed(k)[m] \in SentenceChars
    /\ TokenCount(Trimmed(k)) >= 3

\* out is exactly the accepted lines among the line numbers ks, trimmed, in file order
ExactlyAccepted(out, ks) ==
    LET K == {k \in ks : Accepted(k)} IN
    /\ Len(out) = Cardinality(K)
    /\ \A k \in K : out[Cardinality({m \in K : m <= k})] = Trimmed(k)

\* C6: with both markers found, the sense-1 list is exactly the accepted lines
\* strictly between the markers and the sense-2 list exactly the accepted lines
\* after the '2' marker, each trimmed and in file order.
C6_ReturnsAcceptedLines ==
    ppc = "returned" =>
        /\ pres # Absent
        /\ ExactlyAccepted(Val(pres)[1], (sense1_idx + 2)..sense2_idx)
        /\ ExactlyAccepted(Val(pres)[2], (sense2_idx + 2)..Len(contents))

\* C6 witness: a returned parse with a sentence for each sense and a rejected
\* line between the markers
C6_Witness ==
    /\ ppc = "returned"
    /\ Val(pres)[1] # <<>>
    /\ Val(pres)[2] # <<>>
    /\ \E k \in (sense1_idx + 2)..sense2_idx : ~Accepted(k)

-----------------------------------------------------------------------------
(***************************************************************************)
(* SpecAugment: calls of augment_sentences on one input, with other uses   *)
(* of the random generator between them.                                   *)
(***************************************************************************)

InitAugment ==
    /\ asents \in AugLists
    /\ anum \in 0..MaxAug
    /\ rng = [seed |-> 7, pos |-> 0]
    /\ rng0 = rng
    /\ apc = "idle" /\ augmented = <<>> /\ apass = 0 /\ ai = 0
    /\ ares = Absent /\ seen = {} /\ ncalls = 0
    /\ PredictIdle /\ ParseIdle /\ TrainIdle /\ OthersIdle

NextAugment ==
    \/ (AugmentCall /\ UNCHANGED << predictVars, parseVars, trainVars,
                       normVars, stage1Vars, loadVars >>)
    \/ (AugmentStep /\ UNCHANGED << predictVars, parseVars, trainVars,
                       normVars, stage1Vars, loadVars >>)
    \/ (AugmentReturn /\ UNCHANGED << predictVars, parseVars, trainVars,
                       normVars, stage1Vars, loadVars >>)
    \/ (AugmentDone /\ UNCHANGED << predictVars, parseVars, trainVars,
                       normVars, stage1Vars, loadVars >>)
    \/ (OtherRandomUse /\ UNCHANGED << predictVars, parseVars, trainVars,
                       normVars, stage1Vars, loadVars >>)

SpecAugment == InitAugment /\ [][NextAugment]_vars

\* C7: the output starts with the input sentences, unchanged and in order, its
\* length is at least len(xs) and at most len(xs) * (1 + n), the list being
\* built never exceeds that cap, and no further sentence is processed once the
\* cap is reached.
C7_OriginalsFirstWithinCap ==
    /\ apc \in {"loop", "return", "returned"} =>
          /\ Len(augmented) <= Len(asents) * (1 + anum)
          /\ Len(augmented) >= Len(asents)
          /\ SubSeq(augmented, 1, Len(asents)) = asents
    /\ (apc = "loop" /\ apass < anum /\ ai < Len(asents)) =>
          Len(augmented) < Len(asents) * (1 + anum)
    /\ apc = "returned" =>
          /\ ares # Absent
          /\ Len(Val(ares)) >= Len(asents)
          /\ Len(Val(ares)) <= Len(asents) * (1 + anum)
          /\ SubSeq(Val(ares), 1, Len(asents)) = asents

\* C7 witness: a call that returned with the cap reached, variants included
C7_Witness ==
    /\ apc = "returned"
    /\ anum = 2
    /\ asents # <<>>
    /\ Len(Val(ares)) = Len(asents) * (1 + anum)

\* C8: all the calls made on the same (sentences, num_augmentations) returned
\* the same output, whatever state the generator was in when each was made.
C8_SameInputSameOutput == Cardinality(seen) <= 1

\* C8 witness: the second call has returned a list with variants, and was made
\* with the generator in a state it is not in after random.seed(42)
C8_Witness ==
    /\ ncalls = MaxCalls
    /\ apc = "returned"
    /\ rng0.seed = 7
    /\ rng0.pos > 0
    /\ Len(Val(ares)) > Len(asents)

-----------------------------------------------------------------------------
(***************************************************************************)
(* SpecTrain: one run of the training runner.                              *)
(***************************************************************************)

InitTrain ==
    /\ words \in WordLists
    /\ corpus \in [DATA_FILES -> Corpora]
    /\ tpc = "loop" /\ wi = 1
    /\ saved = {} /\ skipped = {} /\ terr = None
    /\ PredictIdle /\ ParseIdle /\ AugmentIdle /\ OthersIdle

NextTrain ==
    \/ (TrainSkip /\ UNCHANGED << predictVars, parseVars, augmentVars,
                       normVars, stage1Vars, loadVars >>)
    \/ (TrainAndSave /\ UNCHANGED << predictVars, parseVars, augmentVars,
                       normVars, stage1Vars, loadVars >>)
    \/ (TrainEnd /\ UNCHANGED << predictVars, parseVars, augmentVars,
                       normVars, stage1Vars, loadVars >>)

SpecTrain == InitTrain /\ [][NextTrain]_vars

\* C9: when the run is over, every requested word whose own training does not
\* fail has its model saved, whatever happened to the other requested words.
C9_OtherWordsStillTrained ==
    tpc \in {"done", "failed"} =>
        \A i \in 1..Len(words) :
            (words[i] \in DATA_FILES /\ TrainOutcome(corpus[words[i]]) = "ok")
                => words[i] \in saved

-----------------------------------------------------------------------------
(***************************************************************************)
(* SpecNormalize: normalize_sentences on a list, then on its output.       *)
(***************************************************************************)

InitNormalize ==
    /\ nsents \in NormLists
    /\ nin = <<>> /\ nout = <<>> /\ nres = <<>> /\ npc = "idle"
    /\ PredictIdle /\ ParseIdle /\ AugmentIdle /\ TrainIdle
    /\ Stage1Idle /\ LoadIdle

NextNormalize ==
    \/ (NormalizeCall /\ UNCHANGED << predictVars, parseVars, augmentVars, trainVars,
                                     stage1Vars, loadVars >>)
    \/ (NormalizeStep /\ UNCHANGED << predictVars, parseVars, augmentVars, trainVars,
                                     stage1Vars, loadVars >>)
    \/ (NormalizeReturn /\ UNCHANGED << predictVars, parseVars, augmentVars, trainVars,
                                       stage1Vars, loadVars >>)
    \/ (NormalizeAgain /\ UNCHANGED << predictVars, parseVars, augmentVars, trainVars,
                                      stage1Vars, loadVars >>)

SpecNormalize == InitNormalize /\ [][NextNormalize]_vars

\* the tokens of a string joined by single spaces
RECURSIVE JoinSpace(_)
JoinSpace(toks) ==
    IF toks = <<>> THEN <<>>
    ELSE IF Len(toks) = 1 THEN Head(toks)
    ELSE Head(toks) \o <<" ">> \o JoinSpace(Tail(toks))

\* s with every maximal whitespace run replaced by one space and no
\* whitespace at either end: no tab, no two adjacent spaces, same tokens
IsNormalFormOf(out, s) ==
    /\ out = JoinSpace(Split(s))
    /\ \A k \in 1..Len(out) : out[k] \in WS => out[k] = " "
    /\ \A k \in 1..(Len(out) - 1) : ~(out[k] \in WS /\ out[k + 1] \in WS)
    /\ out = <<>> \/ (out[1] \notin WS /\ out[Len(out)] \notin WS)

\* C11: the first call returns a list as long as its input whose element i is
\* input element i in normal form (the empty string stays empty), and the
\* call on that output returns it unchanged.
C11_NormalizeShapeAndIdempotent ==
    /\ Len(nres) >= 1 =>
          /\ Len(nres[1]) = Len(nsents)
          /\ \A i \in 1..Len(nsents) :
                /\ IsNormalFormOf(nres[1][i], nsents[i])
                /\ nsents[i] = <<>> => nres[1][i] = <<>>
    /\ Len(nres) = 2 => nres[2] = nres[1]

\* C11 witness: both calls returned on a list that holds the empty string and
\* a string the first call changed
C11_Witness ==
    /\ Len(nres) = 2
    /\ Len(nsents) = 2
    /\ nsents[1] = <<>>
    /\ nres[1][2] # nsents[2]
    /\ Len(Split(nsents[2])) >= 3

-----------------------------------------------------------------------------
(***************************************************************************)
(* SpecLoad: one call of load_word_data.                                   *)
(***************************************************************************)

\* the augmenter's variables other than the generator
augmentRest == << apc, asents, anum, augmented, apass, ai, ares, seen, ncalls, rng0 >>

InitLoad ==
    /\ lcorpus \in LoadCorpora
    /\ lpc = "start" /\ ls1 = <<>> /\ ls2 = <<>> /\ lX = <<>> /\ ly = <<>> /\ lerr = None
    /\ PredictIdle /\ ParseIdle /\ AugmentIdle /\ TrainIdle
    /\ NormIdle /\ Stage1Idle

NextLoad ==
    \/ (LoadRead /\ UNCHANGED << predictVars, parseVars, augmentRest, trainVars,
                                normVars, stage1Vars >>)
    \/ (LoadStage1 /\ UNCHANGED << predictVars, parseVars, augmentRest, trainVars,
                                  normVars, stage1Vars >>)
    \/ (LoadGlosses /\ UNCHANGED << predictVars, parseVars, augmentRest, trainVars,
                                   normVars, stage1Vars >>)
    \/ (LoadNormalize /\ UNCHANGED << predictVars, parseVars, augmentRest, trainVars,
                                     normVars, stage1Vars >>)
    \/ (LoadAugment /\ UNCHANGED << predictVars, parseVars, augmentRest, trainVars,
                                   normVars, stage1Vars >>)
    \/ (LoadReturn /\ UNCHANGED << predictVars, parseVars, augmentRest, trainVars,
                                  normVars, stage1Vars >>)

SpecLoad == InitLoad /\ [][NextLoad]_vars

\* the normalized sentences of sense k that the corpus supplies: parsed from
\* the primary file, taken from the stage-1 file, and the gloss
SourcesOf(c, k) ==
    LET f  == Val(c.file)
        mk == FindMarkers(Cleaned(f), 0, NoIdx)
        ps == CollectSenses(f, mk[1], mk[2])[k]
        g  == parse_glosses(f)[k]
    IN  {NormalizeOne(ps[j]) : j \in 1..Len(ps)}
        \cup {NormalizeOne(c.stage1[k][j]) : j \in 1..Len(c.stage1[k])}
        \cup (IF g # <<>> THEN {NormalizeOne(g)} ELSE {})

\* x is a sense-k source sentence, or an augmentation variant of one
DerivedFrom(x, c, k) ==
    \/ x \in SourcesOf(c, k)
    \/ \E src \in SourcesOf(c, k) : \E r \in 0..5 : x = NormalizeOne(SubOnce(r, src))

\* C12: every returned example has a label in {1, 2}, was derived from a
\* source of that sense, and has at least 3 whitespace-delimited tokens.
C12_ExamplesLabelledAndLong ==
    lpc = "returned" =>
        /\ Len(lX) = Len(ly)
        /\ \A i \in 1..Len(lX) :
              /\ ly[i] \in {1, 2}
              /\ DerivedFrom(lX[i], lcorpus, ly[i])
              /\ Len(Split(lX[i])) >= 3

-----------------------------------------------------------------------------
(***************************************************************************)
(* SpecStage1: one call of load_stage1_sentences.                          *)
(***************************************************************************)

InitStage1 ==
    /\ s1file \in Stage1Files
    /\ s1pc = "start" /\ s1i = 0 /\ in_s1 = FALSE /\ in_s2 = FALSE
    /\ st1 = <<>> /\ st2 = <<>> /\ s1res = Absent
    /\ PredictIdle /\ ParseIdle /\ AugmentIdle /\ TrainIdle
    /\ NormIdle /\ LoadIdle

NextStage1 ==
    \/ (Stage1Open /\ UNCHANGED << predictVars, parseVars, augmentVars, trainVars,
                                  normVars, loadVars >>)
    \/ (Stage1Line /\ UNCHANGED << predictVars, parseVars, augmentVars, trainVars,
                                  normVars, loadVars >>)
    \/ (Stage1Return /\ UNCHANGED << predictVars, parseVars, augmentVars, trainVars,
                                    normVars, loadVars >>)

SpecStage1 == InitStage1 /\ [][NextStage1]_vars

\* line j of the file, stripped
Stage1LineAt(j) == Strip(Val(s1file)[j])

\* a header line: one that holds 'sense 1' or 'sense 2'
IsHeader(line) == HasSense(line, "1") \/ HasSense(line, "2")

\* the last header line among the first j lines, or 0
LastHeader(j) ==
    LET hs == {h \in 1..j : IsHeader(Stage1LineAt(h))}
    IN  IF hs = {} THEN 0 ELSE CHOOSE h \in hs : \A g \in hs : g <= h

\* the texts of the numbered lines, with 3 or more tokens of text, among the
\* first j lines whose most recent header line satisfies Sets(_)
RECURSIVE TextsUnder(_, _)
TextsUnder(Sets(_), j) ==
    IF j = 0 THEN <<>>
    ELSE LET line == Stage1LineAt(j)
             take == /\ ~IsHeader(line)
                     /\ Len(Split(NumberedText(line))) >= 3
                     /\ LastHeader(j) # 0
                     /\ Sets(Stage1LineAt(LastHeader(j)))
         IN  TextsUnder(Sets, j - 1) \o (IF take THEN <<NumberedText(line)>> ELSE <<>>)

\* what the call is to guarantee, for a given reading of which header lines
\* set the mode 'sense 1' and which set the mode 'sense 2'
Stage1Contract(Sets1(_), Sets2(_)) ==
    /\ ~(in_s1 /\ in_s2)
    /\ (s1pc = "loop" /\ s1i >= 1) =>
          /\ Sets1(Stage1LineAt(s1i)) => in_s1
          /\ Sets2(Stage1LineAt(s1i)) => in_s2
    /\ s1pc = "loop" =>
          /\ in_s1 = (LastHeader(s1i) # 0 /\ Sets1(Stage1LineAt(LastHeader(s1i))))
          /\ in_s2 = (LastHeader(s1i) # 0 /\ Sets2(Stage1LineAt(LastHeader(s1i))))
          /\ st1 = TextsUnder(Sets1, s1i)
          /\ st2 = TextsUnder(Sets2, s1i)
    /\ s1pc = "returned" =>
          IF s1file = Absent
          THEN s1res = Some(<< <<>>, <<>> >>)
          ELSE s1res = Some(<< TextsUnder(Sets1, Len(Val(s1file))),
                               TextsUnder(Sets2, Len(Val(s1file))) >>)

HoldsSense1(line) == HasSense(line, "1")
HoldsSense2(line) == HasSense(line, "2")
HoldsSense2Only(line) == HasSense(line, "2") /\ ~HasSense(line, "1")

\* C13 as stated: every line holding 'sense 1' sets the mode 'sense 1' and
\* every line holding 'sense 2' sets the mode 'sense 2'; the modes are never
\* both active; numbered lines with 3 or more tokens of text go, in file order,
\* to the list of the mode of the most recent header; an absent file gives
\* two empty lists.
C13_ModePerHeaderLine == Stage1Contract(HoldsSense1, HoldsSense2)

\* C13 amended: as above, except that a line holding both 'sense 1' and
\* 'sense 2' sets the mode 'sense 1' only.
C13_Sense1HeaderWins == Stage1Contract(HoldsSense1, HoldsSense2Only)

\* C13 witness: a returned call on a file with a line naming both senses and
\* a sentence appended to each list
C13_Witness ==
    /\ s1pc = "returned"
    /\ s1file # Absent
    /\ \E j \in 1..Len(Val(s1file)) :
          HasSense(Stage1LineAt(j), "1") /\ HasSense(Stage1LineAt(j), "2")
    /\ Val(s1res)[1] # <<>>
    /\ Val(s1res)[2] # <<>>
====
